---- MODULE Spec2Model ----
(***************************************************************************)
(* Content-coding negotiation of zstd-asgi (src/zstd_asgi/headers.py):     *)
(* parse_part, get_preferred_encoding and its functools.lru_cache, and the *)
(* response eligibility rules of the middleware.                           *)
(*                                                                         *)
(* A header value is a sequence of lexemes.  The lexemes "zstd", "gzip",   *)
(* "identity", "br" and "q=" stand for those runs of characters; every     *)
(* other lexeme is one character ("\t" is a horizontal tab).  No lexeme    *)
(* is a prefix, suffix or infix of a run of other lexemes that the code    *)
(* looks for, so splitting, stripping, prefix tests and substring search   *)
(* on lexemes agree with the same operations on characters.                *)
(***************************************************************************)
EXTENDS Integers, Sequences, FiniteSets, TLC

VARIABLES
    accept_encoding,  \* argument of the call in progress
    gzip_fallback,    \* argument of the call in progress
    pc,               \* position inside get_preferred_encoding
    options,          \* local list of (q, priority, name) tuples
    result,           \* returned value, "none" until the call returns
    cache,            \* lru_cache entries, least recently used first
    callers,          \* per caller: position, key and last returned value
    clock,            \* number of cache uses so far (recency stamps)
    issued,           \* number of lookups issued so far
    resp              \* per-response state of the interceptor

negVars == <<accept_encoding, gzip_fallback, pc, options, result>>
cacheVars == <<cache, callers, clock, issued>>
respVars == <<resp>>
vars == <<accept_encoding, gzip_fallback, pc, options, result,
          cache, callers, clock, issued, resp>>

----------------------------------------------------------------------------
(* Strings                                                                 *)

\* Characters str.strip() removes: Python strips every whitespace character.
Whitespace == {" ", "\t"}

Digits == {"0", "1", "5"}

DigitValue(c) == CASE c = "0" -> 0 [] c = "1" -> 1 [] c = "5" -> 5

RECURSIVE LStrip(_)
LStrip(s) ==
    IF s # <<>> /\ Head(s) \in Whitespace THEN LStrip(Tail(s)) ELSE s

RECURSIVE RStrip(_)
RStrip(s) ==
    IF s # <<>> /\ s[Len(s)] \in Whitespace
    THEN RStrip(SubSeq(s, 1, Len(s) - 1))
    ELSE s

\* str.strip()
Strip(s) == RStrip(LStrip(s))

\* str.split(sep) for a one-character separator: always at least one piece.
RECURSIVE SplitFrom(_, _, _, _)
SplitFrom(s, sep, i, piece) ==
    IF i > Len(s) THEN <<piece>>
    ELSE IF s[i] = sep THEN <<piece>> \o SplitFrom(s, sep, i + 1, <<>>)
    ELSE SplitFrom(s, sep, i + 1, Append(piece, s[i]))

Split(s, sep) == SplitFrom(s, sep, 1, <<>>)

\* str.startswith(prefix)
StartsWith(s, prefix) ==
    /\ Len(s) >= Len(prefix)
    /\ SubSeq(s, 1, Len(prefix)) = prefix

\* `pattern in s`
Contains(s, pattern) ==
    \E i \in 1..(Len(s) - Len(pattern) + 1) :
        SubSeq(s, i, i + Len(pattern) - 1) = pattern

\* s.replace(" ", ""): only the space character is removed.
RemoveSpaces(s) == SelectSeq(s, LAMBDA c : c # " ")

----------------------------------------------------------------------------
(* float()                                                                 *)

RECURSIVE DigitsValue(_)
DigitsValue(s) ==
    IF s = <<>> THEN 0
    ELSE 10 * DigitsValue(SubSeq(s, 1, Len(s) - 1)) + DigitValue(s[Len(s)])

RECURSIVE Pow10(_)
Pow10(n) == IF n = 0 THEN 1 ELSE 10 * Pow10(n - 1)

\* float(text) on the lexemes of the model: surrounding whitespace is
\* ignored, then digits with at most one "." and at least one digit.
\* The value is the exact fraction num/den; ok = FALSE is ValueError.
ParseFloat(text) ==
    LET t == Strip(text)
        pieces == Split(t, ".")
        allDigits(p) == \A i \in 1..Len(p) : p[i] \in Digits
    IN  IF /\ Len(pieces) <= 2
           /\ \A k \in 1..Len(pieces) : allDigits(pieces[k])
           /\ \E k \in 1..Len(pieces) : pieces[k] # <<>>
        THEN LET whole == pieces[1]
                 frac == IF Len(pieces) = 2 THEN pieces[2] ELSE <<>>
             IN  [ok |-> TRUE,
                  num |-> DigitsValue(whole \o frac),
                  den |-> Pow10(Len(frac))]
        ELSE [ok |-> FALSE, num |-> 0, den |-> 1]

\* Comparison of two q-values held as fractions.
QLess(a, b) == a.num * b.den < b.num * a.den
QEqual(a, b) == a.num * b.den = b.num * a.den

----------------------------------------------------------------------------
(* parse_part                                                              *)

CODING_PRIORITIES ==
    (<<"zstd">> :> 0) @@ (<<"gzip">> :> 1) @@ (<<"identity">> :> 998)
        @@ (<<"*">> :> 999)

NoToken == [none |-> TRUE]

\* The q-value the parameter loop leaves: the first parameter that starts
\* with "q=" decides (the loop breaks there); 1.0 when there is none.
RECURSIVE FindQ(_)
FindQ(params) ==
    IF params = <<>> THEN [ok |-> TRUE, num |-> 1, den |-> 1]
    ELSE LET param == Strip(Head(params))
         IN  IF StartsWith(param, <<"q=">>)
             THEN LET f == ParseFloat(SubSeq(param, 2, Len(param)))
                  IN  IF f.ok THEN f ELSE [ok |-> TRUE, num |-> 0, den |-> 1]
             ELSE FindQ(Tail(params))

\* A slip that would keep q=0 tokens: "<" for "<=".
IsForbidden_OnlyNegative(q_val) == q_val.num < 0

\* q_val <= 0: the client forbids the coding.
IsForbidden(q_val) == q_val.num <= 0

ParsePart(raw) ==
    LET part == Strip(raw)
        components == Split(part, ";")
        coding_name == Strip(components[1])
    IN  IF part = <<>> THEN NoToken
        ELSE IF coding_name \notin DOMAIN CODING_PRIORITIES THEN NoToken
        ELSE LET q_val == FindQ(Tail(components))
             IN  IF IsForbidden(q_val) THEN NoToken
                 ELSE [none |-> FALSE,
                       q |-> IF q_val.num > q_val.den
                             THEN [num |-> 1, den |-> 1]
                             ELSE [num |-> q_val.num, den |-> q_val.den],
                       priority |-> CODING_PRIORITIES[coding_name],
                       name |-> coding_name[1]]

----------------------------------------------------------------------------
(* get_preferred_encoding                                                  *)

\* Step 1: the tokens of the parts that parse, in header order.
RECURSIVE ParseParts(_)
ParseParts(pieces) ==
    IF pieces = <<>> THEN <<>>
    ELSE LET parsed == ParsePart(Head(pieces))
         IN  (IF parsed.none THEN <<>> ELSE <<parsed>>)
                 \o ParseParts(Tail(pieces))

ParseOptions(header) == ParseParts(Split(header, ","))

\* A slip that would sort by q alone, leaving ties in header order.
SortKeyLess_IgnoresPriority(a, b) == QLess(b.q, a.q)

\* Step 2: the order of the key (-q, priority).
SortKeyLess(a, b) ==
    \/ QLess(b.q, a.q)
    \/ QEqual(a.q, b.q) /\ a.priority < b.priority

\* list.sort is stable: x goes before the first element it is less than.
RECURSIVE InsertSorted(_, _)
InsertSorted(sorted, x) ==
    IF sorted = <<>> THEN <<x>>
    ELSE IF SortKeyLess(x, Head(sorted)) THEN <<x>> \o sorted
    ELSE <<Head(sorted)>> \o InsertSorted(Tail(sorted), x)

RECURSIVE SortOptionsFrom(_, _)
SortOptionsFrom(todo, sorted) ==
    IF todo = <<>> THEN sorted
    ELSE SortOptionsFrom(Tail(todo), InsertSorted(sorted, Head(todo)))

SortedOptions(opts) == SortOptionsFrom(opts, <<>>)

\* The wildcard branch: substring tests on the header without its spaces.
WildcardChoice(header, fallback) ==
    LET squeezed == RemoveSpaces(header)
    IN  IF ~Contains(squeezed, <<"zstd", ";", "q=", "0">>) THEN "zstd"
        ELSE IF fallback /\ ~Contains(squeezed, <<"gzip", ";", "q=", "0">>)
        THEN "gzip"
        ELSE "identity"

\* Step 3, one iteration of the loop: the value returned for this token,
\* or "continue" when the loop goes on to the next one.
ScanOutcome(token, header, fallback) ==
    IF token.name = "zstd" THEN "zstd"
    ELSE IF token.name = "gzip" /\ fallback THEN "gzip"
    ELSE IF token.name = "identity" THEN "identity"
    ELSE IF token.name = "*" THEN WildcardChoice(header, fallback)
    ELSE "continue"

RECURSIVE ScanOptions(_, _, _)
ScanOptions(opts, header, fallback) ==
    IF opts = <<>> THEN "identity"
    ELSE LET outcome == ScanOutcome(Head(opts), header, fallback)
         IN  IF outcome # "continue" THEN outcome
             ELSE ScanOptions(Tail(opts), header, fallback)

\* The undecorated function.
GetPreferredEncoding(header, fallback) ==
    ScanOptions(SortedOptions(ParseOptions(header)), header, fallback)

----------------------------------------------------------------------------
(* Header values offered to the negotiation                                *)

MaxParts == 2

Q0 == <<";", "q=", "0">>
Q05 == <<";", "q=", "0", ".", "5">>
Q1 == <<";", "q=", "1">>
Q5 == <<";", "q=", "5">>
QBad == <<";", "q=", "x">>
QSpace0 == <<";", " ", "q=", "0">>
QTab0 == <<";", "\t", "q=", "0">>
QAfterParam0 == <<";", "x", ";", "q=", "0">>
QAfterZstd0 == <<";", "zstd", ";", "q=", "0">>

Parts ==
    {<<>>}
    \cup {<<"zstd">> \o t :
            t \in {<<>>, Q0, Q05, Q1, Q5, QBad, QSpace0, QTab0, QAfterParam0}}
    \cup {<<"gzip">> \o t : t \in {<<>>, Q0, Q05, Q1, Q5, QBad, QAfterZstd0}}
    \cup {<<"identity">> \o t : t \in {<<>>, Q0, Q05}}
    \cup {<<"*">> \o t : t \in {<<>>, Q0, Q05}}
    \cup {<<"br">> \o t : t \in {<<>>, QAfterZstd0}}
    \cup {<<"x", "zstd">> \o Q0}

\* ", ".join(parts)
RECURSIVE Join(_)
Join(ps) ==
    IF ps = <<>> THEN <<>>
    ELSE IF Len(ps) = 1 THEN ps[1]
    ELSE ps[1] \o <<",", " ">> \o Join(Tail(ps))

Headers == UNION {{Join(ps) : ps \in [1..n -> Parts]} : n \in 1..MaxParts}

----------------------------------------------------------------------------
(* One call of the undecorated function, statement by statement            *)

NoCallers == <<>>
NoResponse == [state |-> "Unused"]

InitNeg ==
    /\ accept_encoding = <<>>
    /\ gzip_fallback = FALSE
    /\ pc = "idle"
    /\ options = <<>>
    /\ result = "none"

Init ==
    /\ InitNeg
    /\ cache = <<>>
    /\ callers = NoCallers
    /\ clock = 0
    /\ issued = 0
    /\ resp = NoResponse

\* The middleware calls get_preferred_encoding(header, gzip_fallback).
Request(header, fallback) ==
    /\ pc = "idle"
    /\ accept_encoding' = header
    /\ gzip_fallback' = fallback
    /\ pc' = "parse"
    /\ UNCHANGED <<options, result>>

ParseHeader ==
    /\ pc = "parse"
    /\ options' = ParseOptions(accept_encoding)
    /\ pc' = "sort"
    /\ UNCHANGED <<accept_encoding, gzip_fallback, result>>

SortOptions ==
    /\ pc = "sort"
    /\ options' = SortedOptions(options)
    /\ pc' = "scan"
    /\ UNCHANGED <<accept_encoding, gzip_fallback, result>>

ScanReturn ==
    /\ pc = "scan"
    /\ options # <<>>
    /\ ScanOutcome(Head(options), accept_encoding, gzip_fallback) # "continue"
    /\ result' = ScanOutcome(Head(options), accept_encoding, gzip_fallback)
    /\ pc' = "done"
    /\ UNCHANGED <<accept_encoding, gzip_fallback, options>>

ScanSkip ==
    /\ pc = "scan"
    /\ options # <<>>
    /\ ScanOutcome(Head(options), accept_encoding, gzip_fallback) = "continue"
    /\ options' = Tail(options)
    /\ UNCHANGED <<accept_encoding, gzip_fallback, pc, result>>

ScanExhausted ==
    /\ pc = "scan"
    /\ options = <<>>
    /\ result' = "identity"
    /\ pc' = "done"
    /\ UNCHANGED <<accept_encoding, gzip_fallback, options>>

Next ==
    \/ /\ pc = "idle"
       /\ \E header \in Headers, fallback \in BOOLEAN :
              Request(header, fallback)
       /\ UNCHANGED <<cacheVars, respVars>>
    \/ ParseHeader /\ UNCHANGED <<cacheVars, respVars>>
    \/ SortOptions /\ UNCHANGED <<cacheVars, respVars>>
    \/ ScanReturn /\ UNCHANGED <<cacheVars, respVars>>
    \/ ScanSkip /\ UNCHANGED <<cacheVars, respVars>>
    \/ ScanExhausted /\ UNCHANGED <<cacheVars, respVars>>

Spec == Init /\ [][Next]_vars

\* The stepwise call returns what the function computes.
StepwiseAgrees ==
    pc = "done" => result = GetPreferredEncoding(accept_encoding, gzip_fallback)

----------------------------------------------------------------------------
(* Reading a header value as the client wrote it                           *)

\* The comma-separated parts of a header, each without its outer whitespace.
HeaderParts(header) ==
    LET pieces == Split(header, ",")
    IN  [i \in 1..Len(pieces) |-> Strip(pieces[i])]

\* The coding a part names: the text before its first ";".
CodingOf(part) == Strip(Split(part, ";")[1])

Names(part, coding) == CodingOf(part) = <<coding>>

Supported == {<<"zstd">>, <<"gzip">>, <<"identity">>, <<"*">>}

\* The value text of the part's q parameter (its first one), or <<"absent">>.
RECURSIVE QTextOf(_)
QTextOf(params) ==
    IF params = <<>> THEN <<"absent">>
    ELSE IF StartsWith(Strip(Head(params)), <<"q=">>)
    THEN Tail(Strip(Head(params)))
    ELSE QTextOf(Tail(params))

QText(part) == QTextOf(Tail(Split(part, ";")))

\* The q-values a client can write with the digits of the model, in tenths.
QTenths ==
    (<<"0">> :> 0) @@ (<<"0", ".", "5">> :> 5) @@ (<<"1">> :> 10)
        @@ (<<"5">> :> 50) @@ (<<"absent">> :> 10)

HasZeroQ(part) == QText(part) \in DOMAIN QTenths /\ QTenths[QText(part)] = 0

HasPositiveQ(part) == QText(part) \in DOMAIN QTenths /\ QTenths[QText(part)] > 0

HasMalformedQ(part) == QText(part) \notin DOMAIN QTenths

\* The q-factor of a part with a positive q: at most 1.0.
QFactor(part) ==
    IF QTenths[QText(part)] > 10 THEN 10 ELSE QTenths[QText(part)]

\* The header explicitly forbids a coding: it names it, and every part that
\* names it carries q=0.
Forbids(header, coding) ==
    LET ps == HeaderParts(header)
    IN  /\ \E i \in DOMAIN ps : Names(ps[i], coding)
        /\ \A i \in DOMAIN ps : Names(ps[i], coding) => HasZeroQ(ps[i])

\* The header made of the given pieces of another one.
RECURSIVE JoinPieces(_)
JoinPieces(pieces) ==
    IF pieces = <<>> THEN <<>>
    ELSE IF Len(pieces) = 1 THEN pieces[1]
    ELSE pieces[1] \o <<",">> \o JoinPieces(Tail(pieces))

\* The header without its i-th part.
WithoutPart(header, i) ==
    LET pieces == Split(header, ",")
    IN  JoinPieces(SubSeq(pieces, 1, i - 1) \o SubSeq(pieces, i + 1, Len(pieces)))

\* The header without the parts that name gzip.
WithoutGzipParts(header) ==
    JoinPieces(SelectSeq(Split(header, ","),
                         LAMBDA piece : ~Names(Strip(piece), "gzip")))

\* The header with the malformed q value of its i-th part replaced by 0.
WithZeroQ(header, i) ==
    LET pieces == Split(header, ",")
        piece == pieces[i]
        fixed == [k \in 1..Len(piece) |->
                     IF k > 1 /\ piece[k - 1] = "q=" /\ piece[k] = "x"
                     THEN "0" ELSE piece[k]]
    IN  JoinPieces([pieces EXCEPT ![i] = fixed])

\* Every whitespace character removed.
WithoutWhitespace(header) == SelectSeq(header, LAMBDA c : c \notin Whitespace)

Returned == pc = "done"

----------------------------------------------------------------------------
(* Claims about the negotiation                                            *)

\* C1: the call returns "zstd", "gzip" or "identity", and never a coding
\* the header explicitly forbids (every part naming it carries q=0),
\* whatever else the forbidding part holds and also beside a wildcard.
C1_NeverForbidden ==
    Returned =>
        /\ result \in {"zstd", "gzip", "identity"}
        /\ Forbids(accept_encoding, "zstd") => result # "zstd"
        /\ Forbids(accept_encoding, "gzip") => result # "gzip"

\* The header's recognized parts are one zstd part and one gzip part, both
\* with a positive q.
ZstdGzipPair(header) ==
    LET ps == HeaderParts(header)
    IN  /\ Cardinality({i \in DOMAIN ps : Names(ps[i], "zstd")}) = 1
        /\ Cardinality({i \in DOMAIN ps : Names(ps[i], "gzip")}) = 1
        /\ \A i \in DOMAIN ps :
               /\ ~Names(ps[i], "identity")
               /\ ~Names(ps[i], "*")
               /\ CodingOf(ps[i]) \in Supported => HasPositiveQ(ps[i])

PartNaming(header, coding) ==
    LET ps == HeaderParts(header)
    IN  ps[CHOOSE i \in DOMAIN ps : Names(ps[i], coding)]

\* C2: with gzip_fallback on, a header whose recognized parts are one zstd
\* and one gzip part with positive q yields "gzip" exactly when gzip's
\* q-factor is strictly greater than zstd's, and "zstd" otherwise, in either
\* order of the two parts.
C2_PairByQThenPriority ==
    (Returned /\ gzip_fallback /\ ZstdGzipPair(accept_encoding)) =>
        result = IF QFactor(PartNaming(accept_encoding, "gzip"))
                        > QFactor(PartNaming(accept_encoding, "zstd"))
                 THEN "gzip" ELSE "zstd"

\* C2 witness: zstd has won a tie of q-factors although gzip came first.
C2_Witness ==
    /\ Returned /\ gzip_fallback /\ ZstdGzipPair(accept_encoding)
    /\ result = "zstd"
    /\ Names(HeaderParts(accept_encoding)[1], "gzip")
    /\ QFactor(PartNaming(accept_encoding, "gzip"))
           = QFactor(PartNaming(accept_encoding, "zstd"))

\* C3: with gzip_fallback off the call never returns "gzip", and returns
\* what it returns for the same header without its gzip parts.
C3_GzipSkipped ==
    (Returned /\ ~gzip_fallback) =>
        /\ result # "gzip"
        /\ result = GetPreferredEncoding(WithoutGzipParts(accept_encoding), FALSE)

\* C4: a part with an unsupported coding name changes nothing: the call
\* returns what it returns for the header without that part.
C4_UnsupportedIgnored ==
    Returned =>
        \A i \in DOMAIN HeaderParts(accept_encoding) :
            CodingOf(HeaderParts(accept_encoding)[i]) \notin Supported =>
                result = GetPreferredEncoding(WithoutPart(accept_encoding, i),
                                              gzip_fallback)

\* C5: a malformed q value acts as q=0: replacing it by 0 in a recognized
\* part does not change what the call returns.
C5_MalformedIsZero ==
    Returned =>
        \A i \in DOMAIN HeaderParts(accept_encoding) :
            (/\ CodingOf(HeaderParts(accept_encoding)[i]) \in Supported
             /\ HasMalformedQ(HeaderParts(accept_encoding)[i])) =>
                result = GetPreferredEncoding(WithZeroQ(accept_encoding, i),
                                              gzip_fallback)

\* No part of the header can resolve: each names an unsupported coding (or
\* nothing), or names zstd, gzip or identity with q=0; none is a wildcard.
NothingResolves(header) ==
    LET ps == HeaderParts(header)
    IN  \A i \in DOMAIN ps :
            \/ CodingOf(ps[i]) \notin Supported
            \/ /\ ~Names(ps[i], "*")
               /\ HasZeroQ(ps[i])

\* C6: the call returns "identity" for the empty header, for a header of
\* unsupported codings only, and for a header whose supported codings are
\* all forbidden (q=0) with no wildcard, for both values of gzip_fallback.
C6_IdentityWhenNothingResolves ==
    (Returned /\ NothingResolves(accept_encoding)) => result = "identity"

\* C6 witness: a header that forbids a supported coding, next to an
\* unsupported one, has been answered.
C6_Witness ==
    /\ Returned
    /\ NothingResolves(accept_encoding)
    /\ Forbids(accept_encoding, "zstd")
    /\ \E i \in DOMAIN HeaderParts(accept_encoding) :
           CodingOf(HeaderParts(accept_encoding)[i]) = <<"br">>

\* The loop returned at a wildcard token.
WildcardDecided == Returned /\ options # <<>> /\ Head(options).name = "*"

\* C7: when the wildcard is the first token that resolves, the call returns
\* "zstd" unless the header without its whitespace contains "zstd;q=0";
\* else "gzip" if gzip_fallback is on and that text does not contain
\* "gzip;q=0"; else "identity".
C7_WildcardRule ==
    WildcardDecided =>
        LET text == WithoutWhitespace(accept_encoding)
        IN  result =
                IF ~Contains(text, <<"zstd", ";", "q=", "0">>) THEN "zstd"
                ELSE IF /\ gzip_fallback
                        /\ ~Contains(text, <<"gzip", ";", "q=", "0">>)
                THEN "gzip"
                ELSE "identity"

----------------------------------------------------------------------------
(* @lru_cache(maxsize=128)                                                 *)
(*                                                                         *)
(* functools' bounded wrapper: it looks the key up (a hit moves the entry  *)
(* to the recent end and returns its value); on a miss it calls the        *)
(* function, during which other threads may run, then looks the key up     *)
(* again and stores the result unless another thread has stored it, giving *)
(* up the oldest entry when the cache is full.  The field `used` of an     *)
(* entry records the time of its last use; the wrapper itself keeps only   *)
(* the order.                                                              *)

MaxSize == 128

\* Lookups issued after the warm-up.
MaxCalls == 4

\* The threads that call the decorated function.
Threads == {"t1", "t2"}

Idle == [pc |-> "idle", asked |-> <<>>, hit |-> FALSE, returned |-> "none"]

\* A slip that would key the cache by the header alone.
MakeKey_HeaderOnly(header, fallback) == <<header>>

\* The cache key of a call: its positional arguments.
MakeKey(header, fallback) == <<header, fallback>>

\* Position of the entry with this key, 0 when there is none.
Find(entries, key) ==
    IF \E i \in 1..Len(entries) : entries[i].key = key
    THEN CHOOSE i \in 1..Len(entries) : entries[i].key = key
    ELSE 0

\* A slip that would leave a hit entry where it is (first in, first out).
Touch_InPlace(entries, i, now) == [entries EXCEPT ![i].used = now]

\* A hit moves the entry to the most recently used end.
Touch(entries, i, now) ==
    SubSeq(entries, 1, i - 1) \o SubSeq(entries, i + 1, Len(entries))
        \o <<[entries[i] EXCEPT !.used = now]>>

\* The entry a full cache gives up: the one at the least recently used end.
Evict(entries) == Tail(entries)

\* Numerals over the digits of the model, one per number.
RECURSIVE Numeral(_)
Numeral(n) ==
    LET d == CASE n % 3 = 0 -> "0" [] n % 3 = 1 -> "1" [] n % 3 = 2 -> "5"
    IN  IF n < 3 THEN <<d>> ELSE Numeral(n \div 3) \o <<d>>

\* The n-th key of the traffic: a client that varies the q-value, each
\* header asked with gzip_fallback off and then on.
HeaderAt(n) ==
    <<(IF n % 2 = 0 THEN "gzip" ELSE "zstd"), ",", " ",
      (IF n % 2 = 0 THEN "zstd" ELSE "gzip"), ";", "q=", "0", ".">> \o Numeral(n)

KeyAt(n) == <<HeaderAt(n \div 2), n % 2 = 1>>

\* The sequential warm-up leaves the cache two entries short of full.
WarmUp == MaxSize - 2

\* Keys asked after the warm-up: the oldest ones and new ones.
HotKeys == {KeyAt(n) : n \in {0, 1, WarmUp, WarmUp + 1, WarmUp + 2}}

MayAsk(t, key) ==
    IF issued < WarmUp
    THEN t = "t1" /\ key = KeyAt(issued)
    ELSE issued < WarmUp + MaxCalls /\ key \in HotKeys

InitCache ==
    /\ InitNeg
    /\ cache = <<>>
    /\ callers = [t \in Threads |-> Idle]
    /\ clock = 0
    /\ issued = 0
    /\ resp = NoResponse

\* The wrapper finds the key: the entry becomes the most recent one and its
\* value is returned without calling the function.
LookupHit(t, key) ==
    /\ callers[t].pc = "idle"
    /\ MayAsk(t, key)
    /\ Find(cache, MakeKey(key[1], key[2])) # 0
    /\ LET i == Find(cache, MakeKey(key[1], key[2]))
       IN  /\ cache' = Touch(cache, i, clock + 1)
           /\ callers' = [callers EXCEPT ![t] =
                  [pc |-> "idle", asked |-> key, hit |-> TRUE,
                   returned |-> cache[i].value]]
    /\ clock' = clock + 1
    /\ issued' = issued + 1

\* The wrapper does not find the key and calls the function.
LookupMiss(t, key) ==
    /\ callers[t].pc = "idle"
    /\ MayAsk(t, key)
    /\ Find(cache, MakeKey(key[1], key[2])) = 0
    /\ callers' = [callers EXCEPT ![t] =
           [pc |-> "computing", asked |-> key, hit |-> FALSE,
            returned |-> "none"]]
    /\ issued' = issued + 1
    /\ UNCHANGED <<cache, clock>>

Computed(t) == GetPreferredEncoding(callers[t].asked[1], callers[t].asked[2])

Answer(t) ==
    [pc |-> "idle", asked |-> callers[t].asked, hit |-> FALSE,
     returned |-> Computed(t)]

NewEntry(t, now) ==
    [key |-> MakeKey(callers[t].asked[1], callers[t].asked[2]),
     value |-> Computed(t), used |-> now]

\* The function returns and another thread has stored the key meanwhile:
\* the cache is left as it is.
ReturnRaced(t) ==
    /\ callers[t].pc = "computing"
    /\ Find(cache, MakeKey(callers[t].asked[1], callers[t].asked[2])) # 0
    /\ callers' = [callers EXCEPT ![t] = Answer(t)]
    /\ UNCHANGED <<cache, clock, issued>>

\* The function returns and the cache has room: the entry is added.
ReturnInsert(t) ==
    /\ callers[t].pc = "computing"
    /\ Find(cache, MakeKey(callers[t].asked[1], callers[t].asked[2])) = 0
    /\ Len(cache) < MaxSize
    /\ cache' = Append(cache, NewEntry(t, clock + 1))
    /\ clock' = clock + 1
    /\ callers' = [callers EXCEPT ![t] = Answer(t)]
    /\ UNCHANGED issued

\* The function returns and the cache is full: the oldest entry makes room.
ReturnEvict(t) ==
    /\ callers[t].pc = "computing"
    /\ Find(cache, MakeKey(callers[t].asked[1], callers[t].asked[2])) = 0
    /\ Len(cache) >= MaxSize
    /\ cache' = Append(Evict(cache), NewEntry(t, clock + 1))
    /\ clock' = clock + 1
    /\ callers' = [callers EXCEPT ![t] = Answer(t)]
    /\ UNCHANGED issued

NextCache ==
    \/ \E t \in Threads, key \in HotKeys \cup {KeyAt(issued)} :
           LookupHit(t, key) /\ UNCHANGED <<negVars, respVars>>
    \/ \E t \in Threads, key \in HotKeys \cup {KeyAt(issued)} :
           LookupMiss(t, key) /\ UNCHANGED <<negVars, respVars>>
    \/ \E t \in Threads : ReturnRaced(t) /\ UNCHANGED <<negVars, respVars>>
    \/ \E t \in Threads : ReturnInsert(t) /\ UNCHANGED <<negVars, respVars>>
    \/ \E t \in Threads : ReturnEvict(t) /\ UNCHANGED <<negVars, respVars>>

SpecCache == InitCache /\ [][NextCache]_vars

----------------------------------------------------------------------------
(* Claims about the cache                                                  *)

KeysOf(entries) == {entries[i].key : i \in 1..Len(entries)}

\* The entry whose last use (insertion or hit) is the oldest.
LeastRecentlyUsed(entries) ==
    CHOOSE e \in {entries[i] : i \in 1..Len(entries)} :
        \A i \in 1..Len(entries) : e.used <= entries[i].used

\* C8: whatever calls came before, cache hits and evictions included, a
\* call with key (header, gzip_fallback) returns the value the undecorated
\* function computes for that key.
C8_MemoizationTransparent ==
    \A t \in Threads :
        callers[t].returned # "none" =>
            callers[t].returned
                = GetPreferredEncoding(callers[t].asked[1], callers[t].asked[2])

\* C8 witness: after an eviction, a call was answered "gzip" from the cache.
C8_Witness ==
    /\ Len(cache) = MaxSize
    /\ KeyAt(0) \notin KeysOf(cache)
    /\ \E t \in Threads :
           /\ callers[t].hit
           /\ callers[t].asked = KeyAt(1)
           /\ callers[t].returned = "gzip"

CacheWellFormed ==
    /\ Len(cache) <= MaxSize
    /\ Cardinality(KeysOf(cache)) = Len(cache)
    /\ \A i \in 1..Len(cache) :
           /\ Len(cache[i].key) = 2
           /\ cache[i].key[2] \in BOOLEAN

EvictsLeastRecentlyUsed ==
    (Len(cache) = MaxSize /\ KeysOf(cache') # KeysOf(cache)) =>
        /\ Len(cache') = MaxSize
        /\ Cardinality(KeysOf(cache') \ KeysOf(cache)) = 1
        /\ KeysOf(cache) \ KeysOf(cache') = {LeastRecentlyUsed(cache).key}

\* C10: under every interleaving of the calling threads the cache holds at
\* most 128 entries, one per (accept_encoding, gzip_fallback) pair, and a
\* new key stored in a full cache evicts exactly the least recently used
\* entry.
C10_BoundedLRU == [](CacheWellFormed) /\ [][EvictsLeastRecentlyUsed]_vars

\* C10 witness: the cache is full, a hit has saved its oldest entry, and
\* the next oldest one was evicted for a new key.
C10_Witness ==
    /\ Len(cache) = MaxSize
    /\ KeyAt(0) \in KeysOf(cache)
    /\ KeyAt(1) \notin KeysOf(cache)
    /\ KeyAt(WarmUp + 2) \in KeysOf(cache)

----------------------------------------------------------------------------
(* The response interceptor                                                *)

\* Longest handler body, in bytes.
MaxBody == 3

Bodies == UNION {[1..n -> {"x"}] : n \in 0..MaxBody}

\* The codec collaborators: a frame around the data.
Compress(codec, data) == <<codec>> \o data \o <<"end">>

\* What the incremental encoder emits for one chunk, and when it finishes.
EncoderFeed(codec, chunk, first) == (IF first THEN <<codec>> ELSE <<>>) \o chunk
EncoderFinish(codec, first) == (IF first THEN <<codec>> ELSE <<>>) \o <<"end">>

\* A slip that would compress a body the handler has encoded already.
Eligible_IgnoresHandlerEncoding(r) ==
    /\ r.negotiated # "identity"
    /\ ~r.excluded
    /\ r.streaming \/ Len(r.body) >= r.minimum_size

\* The eligibility checks; the size check needs a complete body.
Eligible(r) ==
    /\ r.negotiated # "identity"
    /\ ~r.excluded
    /\ r.contentEncoding = "none"
    /\ r.streaming \/ Len(r.body) >= r.minimum_size

InitResponse ==
    /\ InitNeg
    /\ cache = <<>>
    /\ callers = NoCallers
    /\ clock = 0
    /\ issued = 0
    /\ resp = [state |-> "Idle"]

\* The handler's response reaches the interceptor.
HandlerResponds(negotiated, excluded, encoding, streaming, body, minimum) ==
    /\ resp.state = "Idle"
    /\ resp' = [state |-> "Pending",
                negotiated |-> negotiated,
                excluded |-> excluded,
                minimum_size |-> minimum,
                streaming |-> streaming,
                body |-> body,
                contentEncoding |-> encoding,
                contentLength |-> IF streaming THEN "none" ELSE Len(body),
                todo |-> body,
                outBody |-> <<>>,
                outEncoding |-> "unsent",
                outLength |-> "unsent"]

PassThrough ==
    /\ resp.state = "Pending"
    /\ ~Eligible(resp)
    /\ resp' = [resp EXCEPT !.state = "PassThrough",
                            !.outBody = resp.body,
                            !.todo = <<>>,
                            !.outEncoding = resp.contentEncoding,
                            !.outLength = resp.contentLength]

StartBuffering ==
    /\ resp.state = "Pending"
    /\ Eligible(resp)
    /\ ~resp.streaming
    /\ resp' = [resp EXCEPT !.state = "Buffering"]

CompressBuffered ==
    /\ resp.state = "Buffering"
    /\ resp' = [resp EXCEPT !.state = "Compressed",
                            !.outBody = Compress(resp.negotiated, resp.body),
                            !.todo = <<>>,
                            !.outEncoding = resp.negotiated,
                            !.outLength =
                                Len(Compress(resp.negotiated, resp.body))]

StartStreaming ==
    /\ resp.state = "Pending"
    /\ Eligible(resp)
    /\ resp.streaming
    /\ resp' = [resp EXCEPT !.state = "Streaming",
                            !.outEncoding = resp.negotiated,
                            !.outLength = "none"]

StreamChunk ==
    /\ resp.state = "Streaming"
    /\ resp.todo # <<>>
    /\ resp' = [resp EXCEPT
           !.outBody = resp.outBody
               \o EncoderFeed(resp.negotiated, <<Head(resp.todo)>>,
                              resp.outBody = <<>>),
           !.todo = Tail(resp.todo)]

SourceEnds ==
    /\ resp.state = "Streaming"
    /\ resp.todo = <<>>
    /\ resp' = [resp EXCEPT !.state = "Flushing"]

Flush ==
    /\ resp.state = "Flushing"
    /\ resp' = [resp EXCEPT
           !.state = "Done",
           !.outBody = resp.outBody
               \o EncoderFinish(resp.negotiated, resp.outBody = <<>>)]

NextResponse ==
    \/ /\ resp.state = "Idle"
       /\ \E negotiated \in {"zstd", "gzip", "identity"},
             excluded \in BOOLEAN, encoding \in {"none", "gzip"},
             streaming \in BOOLEAN, body \in Bodies, minimum \in 0..MaxBody :
              HandlerResponds(negotiated, excluded, encoding, streaming,
                              body, minimum)
       /\ UNCHANGED <<negVars, cacheVars>>
    \/ PassThrough /\ UNCHANGED <<negVars, cacheVars>>
    \/ StartBuffering /\ UNCHANGED <<negVars, cacheVars>>
    \/ CompressBuffered /\ UNCHANGED <<negVars, cacheVars>>
    \/ StartStreaming /\ UNCHANGED <<negVars, cacheVars>>
    \/ StreamChunk /\ UNCHANGED <<negVars, cacheVars>>
    \/ SourceEnds /\ UNCHANGED <<negVars, cacheVars>>
    \/ Flush /\ UNCHANGED <<negVars, cacheVars>>

SpecResponse == InitResponse /\ [][NextResponse]_vars

\* Some eligibility check fails for the response.
FailsEligibility(r) ==
    \/ r.negotiated = "identity"
    \/ r.excluded
    \/ r.contentEncoding # "none"
    \/ ~r.streaming /\ Len(r.body) < r.minimum_size

\* C9: a response that fails an eligibility check (Identity negotiated,
\* excluded path, Content-Encoding already set, or a buffered body shorter
\* than minimum_size) only goes from Pending to PassThrough, and is emitted
\* with the handler's body, Content-Length and Content-Encoding.
C9_IneligibleUntouched ==
    (resp.state # "Idle" /\ FailsEligibility(resp)) =>
        /\ resp.state \in {"Pending", "PassThrough"}
        /\ resp.state = "PassThrough" =>
               /\ resp.outBody = resp.body
               /\ resp.outLength = resp.contentLength
               /\ resp.outEncoding = resp.contentEncoding

\* C9 witness: a body the handler had gzipped itself was passed through
\* although zstd was negotiated and the body was long enough.
C9_Witness ==
    /\ resp.state = "PassThrough"
    /\ resp.negotiated = "zstd"
    /\ ~resp.excluded
    /\ resp.contentEncoding = "gzip"
    /\ ~resp.streaming
    /\ Len(resp.body) >= resp.minimum_size
    /\ resp.outEncoding = "gzip"

====
